---- MODULE Spec2Model ----
(***************************************************************************)
(* Swarm operation backend of pyswarms (pyswarms/backend/operators.py):    *)
(* update_pbest, update_gbest, update_gbest_neighborhood, update_velocity  *)
(* and update_position, as operators over a swarm record, with the calls   *)
(* made on drawn swarms (Spec) and inside an optimisation loop (LoopSpec). *)
(*                                                                         *)
(* Arrays are sequences, so particle and dimension indices start at 1      *)
(* where numpy's start at 0: numpy index j is index j + 1 here.            *)
(* Reals are integers on a grid: every drawn coordinate and velocity is a  *)
(* multiple of Grid, and a random factor is 0 or 1/2, so that the products *)
(* of the velocity update are exact for MaxIter iterations.                *)
(***************************************************************************)
EXTENDS Integers, Sequences, FiniteSets, TLC

VARIABLES swarm, call, ret, pc, iter, seen

vars == <<swarm, call, ret, pc, iter, seen>>

----------------------------------------------------------------------------
(* Bounds of the model *)

MaxParticles == 3
MaxDims == 2
MaxCost == 1
MaxCoord == 1
MaxVel == 1
MaxNorm == 3
MaxIter == 2
MaxCells == 2

RECURSIVE Pow(_, _)
Pow(b, e) == IF e = 0 THEN 1 ELSE b * Pow(b, e - 1)

Grid == Pow(2, MaxIter)

Costs == 0..MaxCost
Coords == {Grid * c : c \in 0..MaxCoord}
Vels == {Grid * v : v \in (0 - MaxVel)..MaxVel}
Norms == 1..MaxNorm
RNums == {0, 1}

Rows(d, vals) == [1..d -> vals]
Mats(n, d, vals) == [1..n -> Rows(d, vals)]

----------------------------------------------------------------------------
(* numpy helpers *)

NoneVal == "None"

Abs(x) == IF x < 0 THEN 0 - x ELSE x

\* np.min over a non-empty vector
VecMin(v) == CHOOSE m \in {v[i] : i \in DOMAIN v} : \A i \in DOMAIN v : m <= v[i]

\* an argmin that returns the last index of the minimum
ArgMinLast(v) ==
    CHOOSE i \in DOMAIN v : /\ \A j \in DOMAIN v : v[i] <= v[j]
                            /\ \A j \in DOMAIN v : j > i => v[j] > v[i]

\* np.argmin: the first index of the minimum
ArgMin(v) ==
    CHOOSE i \in DOMAIN v : /\ \A j \in DOMAIN v : v[i] <= v[j]
                            /\ \A j \in DOMAIN v : j < i => v[j] > v[i]

\* r * x for a random factor r = rnum / 2 in [0, 1)
Scaled(rnum, x) == (rnum * x) \div 2

HasAttrs(s, names) == names \subseteq DOMAIN s

AttributeError == [tag |-> "AttributeError"]
KeyError == [tag |-> "KeyError"]
ValueError == [tag |-> "ValueError"]
IndexError == [tag |-> "IndexError"]

----------------------------------------------------------------------------
(* update_pbest *)

\* the comparison reversed
mask_cost_gt(s) ==
    [i \in DOMAIN s.current_cost |-> s.current_cost[i] > s.pbest_cost[i]]

\* the comparison made non-strict
mask_cost_le(s) ==
    [i \in DOMAIN s.current_cost |-> s.current_cost[i] <= s.pbest_cost[i]]

\* mask_cost = (swarm.current_cost < swarm.pbest_cost)
mask_cost(s) ==
    [i \in DOMAIN s.current_cost |-> s.current_cost[i] < s.pbest_cost[i]]

update_pbest(s) ==
    IF ~HasAttrs(s, {"dimensions", "current_cost", "pbest_cost",
                     "pbest_pos", "position"})
    THEN AttributeError
    ELSE LET n == Len(s.current_cost)
             mask_pos == [i \in 1..n |-> [d \in 1..s.dimensions |-> mask_cost(s)[i]]]
             new_pbest_pos ==
                 [i \in 1..n |-> [d \in 1..s.dimensions |->
                     IF ~mask_pos[i][d] THEN s.pbest_pos[i][d]
                                        ELSE s.position[i][d]]]
             new_pbest_cost ==
                 [i \in 1..n |-> IF ~mask_cost(s)[i] THEN s.pbest_cost[i]
                                                     ELSE s.current_cost[i]]
         IN  [tag |-> "ok", pbest_pos |-> new_pbest_pos,
              pbest_cost |-> new_pbest_cost]

----------------------------------------------------------------------------
(* update_gbest *)

update_gbest(s) ==
    IF ~HasAttrs(s, {"pbest_pos", "pbest_cost"})
    THEN AttributeError
    ELSE [tag |-> "ok",
          best_pos |-> s.pbest_pos[ArgMin(s.pbest_cost)],
          best_cost |-> VecMin(s.pbest_cost)]

----------------------------------------------------------------------------
(* update_gbest_neighborhood *)

\* p-th power of the Minkowski p-distance between rows i and j of x; it
\* orders the neighbours as the distance itself does
Dist(x, i, j, p) ==
    LET d == Len(x[i])
        RECURSIVE Sum(_)
        Sum(c) == IF c = 0 THEN 0
                  ELSE Pow(Abs(x[i][c] - x[j][c]), p) + Sum(c - 1)
    IN  Sum(d)

\* The neighbour rows tree.query may return for particle i: the min(k, n)
\* nearest particles by ascending distance, in any order among equidistant
\* ones, then the missing-neighbour index n (here n + 1) up to length k.
NeighborRows(x, i, p, k) ==
    LET n == Len(x)
        m == IF k < n THEN k ELSE n
        found == {r \in [1..m -> 1..n] :
                    /\ \A a, b \in 1..m : a < b =>
                          /\ r[a] # r[b]
                          /\ Dist(x, i, r[a], p) <= Dist(x, i, r[b], p)
                    /\ \A j \in 1..n : (\A a \in 1..m : r[a] # j) =>
                          Dist(x, i, r[m], p) <= Dist(x, i, j, p)}
    IN  {[a \in 1..k |-> IF a <= m THEN r[a] ELSE n + 1] : r \in found}

RECURSIVE RowProduct(_, _, _, _)
RowProduct(x, p, k, n) ==
    IF n = 0 THEN {<<>>}
    ELSE {Append(t, r) : t \in RowProduct(x, p, k, n - 1),
                         r \in NeighborRows(x, n, p, k)}

\* _, idx = tree.query(swarm.position, p=p, k=k): the index arrays the
\* query may return; for k = 1 the array is 1-D, one index per particle
query(x, p, k) ==
    IF k = 1 THEN {[i \in 1..Len(x) |-> m[i][1]] : m \in RowProduct(x, p, 1, Len(x))}
    ELSE RowProduct(x, p, k, Len(x))

\* the column index idx_min used as a particle index, not mapped through idx
best_neighbor_unmapped(cost, idx, k) ==
    IF k = 1
    THEN [i \in DOMAIN idx |-> ArgMin(<<cost[idx[i]]>>)]
    ELSE [i \in DOMAIN idx |-> ArgMin([j \in 1..k |-> cost[idx[i][j]]])]

\* if k == 1: swarm.pbest_cost[idx][:, np.newaxis].argmin(axis=1), the
\* argmin of each one-element row, which is numpy index 0 (here 1);
\* else: idx[np.arange(len(idx)), swarm.pbest_cost[idx].argmin(axis=1)]
best_neighbor(cost, idx, k) ==
    IF k = 1
    THEN [i \in DOMAIN idx |-> ArgMin(<<cost[idx[i]]>>)]
    ELSE LET idx_min == [i \in DOMAIN idx |->
                 ArgMin([j \in 1..k |-> cost[idx[i][j]]])]
         IN  [i \in DOMAIN idx |-> idx[i][idx_min[i]]]

\* idx is what tree.query returned.  Two errors pass the except clause
\* uncaught: with k < 1 there is no neighbour column (ValueError, from the
\* query or from the argmin over an empty axis), and with k > n a row of
\* idx holds the missing-neighbour index, which pbest_cost[idx] rejects
\* (IndexError).
update_gbest_neighborhood(s, p, k, idx) ==
    IF ~HasAttrs(s, {"position"}) THEN AttributeError
    ELSE IF k < 1 THEN ValueError
    ELSE IF ~HasAttrs(s, {"pbest_cost"}) THEN AttributeError
    ELSE LET n == Len(s.position)
             cost == s.pbest_cost
         IN
         IF k # 1 /\ \E i \in 1..n : \E j \in 1..k : idx[i][j] > n
         THEN IndexError
         ELSE LET neighbor_cost ==
                      [i \in 1..n |-> cost[best_neighbor(cost, idx, k)[i]]]
              IN  IF ~HasAttrs(s, {"pbest_pos"}) THEN AttributeError
                  ELSE [tag |-> "ok",
                        best_pos |-> s.pbest_pos[ArgMin(neighbor_cost)],
                        best_cost |-> VecMin(neighbor_cost)]

----------------------------------------------------------------------------
(* update_velocity *)

\* np.clip in place of the mask: an out-of-range cell cut to the boundary
clamp_mask_clip(t, v, clamp) ==
    IF t < clamp[1] THEN clamp[1] ELSE IF t > clamp[2] THEN clamp[2] ELSE t

\* mask = logical_and(temp >= min_velocity, temp <= max_velocity);
\* np.where(~mask, swarm.velocity, temp_velocity), for one cell
clamp_mask(t, v, clamp) ==
    LET mask == t >= clamp[1] /\ t <= clamp[2]
    IN  IF ~mask THEN v ELSE t

update_velocity(s, clamp, r1, r2) ==
    IF ~HasAttrs(s, {"position", "behavior"}) THEN AttributeError
    ELSE IF ~({"c1", "c2", "w"} \subseteq DOMAIN s.behavior) THEN KeyError
    ELSE IF ~HasAttrs(s, {"pbest_pos", "best_pos", "velocity"}) THEN AttributeError
    ELSE LET n == Len(s.position)
             d == Len(s.position[1])
             c1 == s.behavior["c1"]
             c2 == s.behavior["c2"]
             w == s.behavior["w"]
             cognitive == [i \in 1..n |-> [j \in 1..d |->
                 c1 * Scaled(r1[i][j], s.pbest_pos[i][j] - s.position[i][j])]]
             social == [i \in 1..n |-> [j \in 1..d |->
                 c2 * Scaled(r2[i][j], s.best_pos[j] - s.position[i][j])]]
             temp_velocity == [i \in 1..n |-> [j \in 1..d |->
                 (w * s.velocity[i][j]) + cognitive[i][j] + social[i][j]]]
         IN  [tag |-> "ok",
              velocity |->
                 IF clamp = NoneVal THEN temp_velocity
                 ELSE [i \in 1..n |-> [j \in 1..d |->
                         clamp_mask(temp_velocity[i][j], s.velocity[i][j], clamp)]]]

----------------------------------------------------------------------------
(* update_position *)

\* np.any in place of np.all: one dimension within bounds is enough
feasible_any(t, lb, ub) ==
    \E j \in DOMAIN t : lb[j] <= t[j] /\ t[j] <= ub[j]

\* np.all(min_bounds <= temp_position, axis=1)
\*   * np.all(temp_position <= max_bounds, axis=1), for one row
feasible(t, lb, ub) ==
    (\A j \in DOMAIN t : lb[j] <= t[j]) /\ (\A j \in DOMAIN t : t[j] <= ub[j])

update_position(s, bounds) ==
    IF ~HasAttrs(s, {"position", "velocity"}) THEN AttributeError
    ELSE LET n == Len(s.position)
             d == Len(s.position[1])
             temp_position == [i \in 1..n |-> [j \in 1..d |->
                                  s.position[i][j] + s.velocity[i][j]]]
         IN  IF bounds = NoneVal
             THEN [tag |-> "ok", position |-> temp_position]
             ELSE IF ~HasAttrs(s, {"n_particles", "dimensions"})
             THEN AttributeError
             ELSE LET lb == bounds[1]
                      ub == bounds[2]
                      mask == [i \in 1..s.n_particles |->
                                  [j \in 1..s.dimensions |->
                                      feasible(temp_position[i], lb, ub)]]
                  IN  [tag |-> "ok",
                       position |-> [i \in 1..n |-> [j \in 1..d |->
                           IF ~mask[i][j] THEN s.position[i][j]
                                          ELSE temp_position[i][j]]]]

\* temp_position = swarm.position without .copy(): += writes to the swarm
position_after_inplace(s) ==
    IF HasAttrs(s, {"position", "velocity"})
    THEN [s EXCEPT !.position =
             [i \in DOMAIN s.position |-> [j \in DOMAIN s.position[i] |->
                 s.position[i][j] + s.velocity[i][j]]]]
    ELSE s

\* The swarm object after update_position returned or raised:
\* temp_position is swarm.position.copy(), so temp_position += swarm.velocity
\* writes to the copy and the swarm's own arrays keep their values
position_after_call(s) == s

----------------------------------------------------------------------------
(* Swarms the operators are called on *)

Shapes(cells) ==
    {sh \in (1..MaxParticles) \X (1..MaxDims) : sh[1] * sh[2] <= cells}

\* swarm.behavior dicts: cognitive and social coefficients and inertia
Behaviors == {[c1 |-> 1, c2 |-> 2, w |-> 1], [c1 |-> 2, c2 |-> 1, w |-> 0]}

ZeroRow(d) == [j \in 1..d |-> 0]
ZeroMat(n, d) == [i \in 1..n |-> ZeroRow(d)]
ZeroVec(n) == [i \in 1..n |-> 0]

\* row i holds i * Grid in every dimension: pairwise distinct rows
IndexMat(n, d) == [i \in 1..n |-> [j \in 1..d |-> i * Grid]]

\* A Swarm instance with every attribute the operators read
BaseSwarm(n, d) ==
    [n_particles |-> n, dimensions |-> d,
     position |-> ZeroMat(n, d), velocity |-> ZeroMat(n, d),
     current_cost |-> ZeroVec(n),
     pbest_pos |-> ZeroMat(n, d), pbest_cost |-> ZeroVec(n),
     best_pos |-> ZeroRow(d), best_cost |-> 0,
     behavior |-> [c1 |-> 1, c2 |-> 1, w |-> 1]]

Without(f, a) == [x \in (DOMAIN f) \ {a} |-> f[x]]

\* Objects that are no Swarm (an attribute is missing) or whose behavior
\* dict lacks a key
Malformed ==
    LET s == [BaseSwarm(2, 2) EXCEPT !.position = IndexMat(2, 2),
                                     !.velocity = IndexMat(2, 2)]
    IN  {Without(s, a) : a \in DOMAIN s}
        \cup {[s EXCEPT !.behavior = Without(s.behavior, key)] :
                  key \in DOMAIN s.behavior}

Clamps == {NoneVal} \cup {c \in Vels \X Vels : c[1] < c[2]}

BoundsFor(d) == {NoneVal} \cup (Rows(d, Coords) \X Rows(d, Coords))

\* the shape of swarm.position (the shape of the arrays drawn for a call)
Particles(s) == IF HasAttrs(s, {"position"}) THEN Len(s.position) ELSE 1
Dims(s) == IF HasAttrs(s, {"position"}) THEN Len(s.position[1]) ELSE 1

\* what tree.query hands back when it is reached, else nothing
QueryResults(s, p, k) ==
    IF HasAttrs(s, {"position"}) /\ k >= 1
    THEN query(s.position, p, k) ELSE {NoneVal}

----------------------------------------------------------------------------
(* Spec: one operator call on a drawn swarm *)

NoCallYet ==
    /\ call = [op |-> "none"]
    /\ ret = [tag |-> "none"]
    /\ iter = 0
    /\ seen = <<>>

\* the swarm is no Swarm, or is one whose arrays update_pbest reads are drawn
InitPbest ==
    /\ pc = "update_pbest" /\ NoCallYet
    /\ \/ swarm \in Malformed
       \/ \E sh \in Shapes(MaxCells) :
            \E pos \in Mats(sh[1], sh[2], Coords),
               pbp \in Mats(sh[1], sh[2], Coords),
               cur \in [1..sh[1] -> Costs], pbc \in [1..sh[1] -> Costs] :
               swarm = [BaseSwarm(sh[1], sh[2]) EXCEPT
                           !.position = pos, !.pbest_pos = pbp,
                           !.current_cost = cur, !.pbest_cost = pbc]

InitGbest ==
    /\ pc = "update_gbest" /\ NoCallYet
    /\ \/ swarm \in Malformed
       \/ \E sh \in Shapes(2 * MaxCells) :
            \E pbp \in Mats(sh[1], sh[2], Coords), pbc \in [1..sh[1] -> Costs] :
               swarm = [BaseSwarm(sh[1], sh[2]) EXCEPT
                           !.pbest_pos = pbp, !.pbest_cost = pbc]

\* the personal best positions are pairwise distinct rows
InitNeighborhood ==
    /\ pc = "update_gbest_neighborhood" /\ NoCallYet
    /\ \/ swarm \in Malformed
       \/ \E sh \in {x \in Shapes(MaxParticles * MaxDims) : x[1] >= 2} :
            \E pos \in Mats(sh[1], sh[2], Coords), pbc \in [1..sh[1] -> Costs] :
               swarm = [BaseSwarm(sh[1], sh[2]) EXCEPT
                           !.position = pos, !.pbest_cost = pbc,
                           !.pbest_pos = IndexMat(sh[1], sh[2])]

InitVelocity ==
    /\ pc = "update_velocity" /\ NoCallYet
    /\ \/ swarm \in Malformed
       \/ \E sh \in Shapes(MaxCells) :
            \E pos \in Mats(sh[1], sh[2], Coords),
               vel \in Mats(sh[1], sh[2], Vels),
               pbp \in Mats(sh[1], sh[2], Coords),
               bp \in Rows(sh[2], Coords), beh \in Behaviors :
               swarm = [BaseSwarm(sh[1], sh[2]) EXCEPT
                           !.position = pos, !.velocity = vel,
                           !.pbest_pos = pbp, !.best_pos = bp,
                           !.behavior = beh]

InitPosition ==
    /\ pc = "update_position" /\ NoCallYet
    /\ \/ swarm \in Malformed
       \/ \E sh \in Shapes(2 * MaxCells) :
            \E pos \in Mats(sh[1], sh[2], Coords),
               vel \in Mats(sh[1], sh[2], Vels) :
               swarm = [BaseSwarm(sh[1], sh[2]) EXCEPT
                           !.position = pos, !.velocity = vel]

Init == InitPbest \/ InitGbest \/ InitNeighborhood \/ InitVelocity \/ InitPosition

CallUpdatePbest ==
    /\ pc = "update_pbest"
    /\ call' = [op |-> "update_pbest"]
    /\ ret' = update_pbest(swarm)
    /\ pc' = "returned"
    /\ UNCHANGED <<swarm, iter, seen>>

CallUpdateGbest ==
    /\ pc = "update_gbest"
    /\ call' = [op |-> "update_gbest"]
    /\ ret' = update_gbest(swarm)
    /\ pc' = "returned"
    /\ UNCHANGED <<swarm, iter, seen>>

CallUpdateGbestNeighborhood ==
    /\ pc = "update_gbest_neighborhood"
    /\ \E p \in Norms, k \in 0..(Particles(swarm) + 1) :
         \E idx \in QueryResults(swarm, p, k) :
            /\ call' = [op |-> "update_gbest_neighborhood", p |-> p, k |-> k]
            /\ ret' = update_gbest_neighborhood(swarm, p, k, idx)
    /\ pc' = "returned"
    /\ UNCHANGED <<swarm, iter, seen>>

CallUpdateVelocity ==
    /\ pc = "update_velocity"
    /\ \E clamp \in Clamps :
         \E r1, r2 \in Mats(Particles(swarm), Dims(swarm), RNums) :
            /\ call' = [op |-> "update_velocity", clamp |-> clamp,
                        r1 |-> r1, r2 |-> r2]
            /\ ret' = update_velocity(swarm, clamp, r1, r2)
    /\ pc' = "returned"
    /\ UNCHANGED <<swarm, iter, seen>>

CallUpdatePosition ==
    /\ pc = "update_position"
    /\ \E bounds \in BoundsFor(Dims(swarm)) :
            /\ call' = [op |-> "update_position", bounds |-> bounds]
            /\ ret' = update_position(swarm, bounds)
    /\ swarm' = position_after_call(swarm)
    /\ pc' = "returned"
    /\ UNCHANGED <<iter, seen>>

Next ==
    \/ CallUpdatePbest
    \/ CallUpdateGbest
    \/ CallUpdateGbestNeighborhood
    \/ CallUpdateVelocity
    \/ CallUpdatePosition

Spec == Init /\ [][Next]_vars

----------------------------------------------------------------------------
(* LoopSpec: the optimisation loop around the operators.  Each iteration  *)
(* the caller evaluates the costs, then assigns the result of             *)
(* update_pbest, of update_gbest or update_gbest_neighborhood, of         *)
(* update_velocity and of update_position to the swarm's attributes.      *)

LoopBounds(d) == <<[j \in 1..d |-> 0], [j \in 1..d |-> Grid * MaxCoord]>>

LoopClamps == {NoneVal, <<0 - Grid, Grid>>}

\* the observations (position, cost) update_pbest has been given so far,
\* per particle, the seed of the personal best included
Observed(s) == [i \in 1..Len(s.position) |-> {<<s.position[i], s.current_cost[i]>>}]

LoopInit ==
    /\ \E sh \in Shapes(MaxCells) :
         \E pos \in Mats(sh[1], sh[2], Coords), vel \in Mats(sh[1], sh[2], Vels),
            cost \in [1..sh[1] -> Costs], beh \in Behaviors :
            LET s == [BaseSwarm(sh[1], sh[2]) EXCEPT
                         !.position = pos, !.velocity = vel,
                         !.current_cost = cost, !.pbest_pos = pos,
                         !.pbest_cost = cost, !.behavior = beh]
            IN  /\ swarm = [s EXCEPT !.best_pos = update_gbest(s).best_pos,
                                     !.best_cost = update_gbest(s).best_cost]
                /\ seen = Observed(s)
    /\ pc = "evaluate"
    /\ iter = 0
    /\ call = [op |-> "none"]
    /\ ret = [tag |-> "none"]

\* swarm.current_cost = objective_func(swarm.position)
Evaluate ==
    /\ pc = "evaluate" /\ iter < MaxIter
    /\ \E cost \in [1..Len(swarm.position) -> Costs] :
          swarm' = [swarm EXCEPT !.current_cost = cost]
    /\ pc' = "pbest"
    /\ UNCHANGED <<call, ret, iter, seen>>

\* swarm.pbest_pos, swarm.pbest_cost = update_pbest(swarm)
StepPbest ==
    /\ pc = "pbest"
    /\ call' = [op |-> "update_pbest"]
    /\ ret' = update_pbest(swarm)
    /\ swarm' = [swarm EXCEPT !.pbest_pos = ret'.pbest_pos,
                              !.pbest_cost = ret'.pbest_cost]
    /\ seen' = [i \in DOMAIN seen |-> seen[i] \cup Observed(swarm)[i]]
    /\ pc' = "gbest"
    /\ UNCHANGED iter

\* swarm.best_pos, swarm.best_cost = update_gbest(swarm)
StepGbest ==
    /\ pc = "gbest"
    /\ call' = [op |-> "update_gbest"]
    /\ ret' = update_gbest(swarm)
    /\ swarm' = [swarm EXCEPT !.best_pos = ret'.best_pos,
                              !.best_cost = ret'.best_cost]
    /\ pc' = "velocity"
    /\ UNCHANGED <<iter, seen>>

\* swarm.best_pos, swarm.best_cost = update_gbest_neighborhood(swarm, p, k),
\* with k a positive integer less than n_particles
StepGbestNeighborhood ==
    /\ pc = "gbest"
    /\ \E p \in {1, 2}, k \in 1..(Len(swarm.position) - 1) :
         \E idx \in query(swarm.position, p, k) :
            /\ call' = [op |-> "update_gbest_neighborhood", p |-> p, k |-> k]
            /\ ret' = update_gbest_neighborhood(swarm, p, k, idx)
    /\ swarm' = [swarm EXCEPT !.best_pos = ret'.best_pos,
                              !.best_cost = ret'.best_cost]
    /\ pc' = "velocity"
    /\ UNCHANGED <<iter, seen>>

\* swarm.velocity = update_velocity(swarm, clamp)
StepVelocity ==
    /\ pc = "velocity"
    /\ \E clamp \in LoopClamps :
         \E r1, r2 \in Mats(Particles(swarm), Dims(swarm), RNums) :
            /\ call' = [op |-> "update_velocity", clamp |-> clamp]
            /\ ret' = update_velocity(swarm, clamp, r1, r2)
    /\ swarm' = [swarm EXCEPT !.velocity = ret'.velocity]
    /\ pc' = "position"
    /\ UNCHANGED <<iter, seen>>

\* swarm.position = update_position(swarm, bounds)
StepPosition ==
    /\ pc = "position"
    /\ call' = [op |-> "update_position", bounds |-> LoopBounds(Dims(swarm))]
    /\ ret' = update_position(swarm, LoopBounds(Dims(swarm)))
    /\ swarm' = [position_after_call(swarm) EXCEPT !.position = ret'.position]
    /\ pc' = "evaluate"
    /\ iter' = iter + 1
    /\ UNCHANGED seen

LoopNext ==
    \/ Evaluate
    \/ StepPbest
    \/ StepGbest
    \/ StepGbestNeighborhood
    \/ StepVelocity
    \/ StepPosition

LoopSpec == LoopInit /\ [][LoopNext]_vars

----------------------------------------------------------------------------
(* Specifications of the single calls *)

\* One operator at a time
SpecPbest == InitPbest /\ [][CallUpdatePbest]_vars
SpecGbest == InitGbest /\ [][CallUpdateGbest]_vars
SpecNeighborhood == InitNeighborhood /\ [][CallUpdateGbestNeighborhood]_vars
SpecVelocity == InitVelocity /\ [][CallUpdateVelocity]_vars
SpecPosition == InitPosition /\ [][CallUpdatePosition]_vars

----------------------------------------------------------------------------
(* Properties of the single calls *)

Returned(op) == pc = "returned" /\ call.op = op /\ ret.tag = "ok"

N == Len(swarm.position)
D == Len(swarm.position[1])

\* C1: update_pbest returns, for every particle i, the cost
\* min(pbest_cost[i], current_cost[i]), and the position position[i] when
\* current_cost[i] < pbest_cost[i] strictly and the old pbest_pos[i]
\* otherwise (a tie keeps the old personal best); where the two candidate
\* positions differ, the new one is position[i] iff the cost improved.
C1_PbestSelectsStrictImprovement ==
    Returned("update_pbest") =>
        \A i \in 1..N :
            LET cur == swarm.current_cost[i]
                old == swarm.pbest_cost[i]
            IN  /\ ret.pbest_cost[i] = IF cur <= old THEN cur ELSE old
                /\ ret.pbest_pos[i] = IF cur < old THEN swarm.position[i]
                                                   ELSE swarm.pbest_pos[i]
                /\ swarm.position[i] # swarm.pbest_pos[i] =>
                      ((ret.pbest_pos[i] = swarm.position[i]) <=> (cur < old))

\* a call with a tie on one particle and an improvement on another, the
\* candidates being different positions
C1_Witness ==
    /\ Returned("update_pbest")
    /\ \E i, j \in 1..N :
          /\ swarm.current_cost[i] = swarm.pbest_cost[i]
          /\ swarm.position[i] # swarm.pbest_pos[i]
          /\ ret.pbest_pos[i] = swarm.pbest_pos[i]
          /\ swarm.current_cost[j] < swarm.pbest_cost[j]
          /\ swarm.position[j] # swarm.pbest_pos[j]

\* C2: update_gbest returns the minimum of pbest_cost and the pbest_pos row
\* of the lowest index at which pbest_cost attains it.
C2_GbestIsFirstMinimum ==
    Returned("update_gbest") =>
        \E j \in DOMAIN swarm.pbest_cost :
            /\ \A i \in DOMAIN swarm.pbest_cost :
                  /\ swarm.pbest_cost[j] <= swarm.pbest_cost[i]
                  /\ i < j => swarm.pbest_cost[i] > swarm.pbest_cost[j]
            /\ ret.best_cost = swarm.pbest_cost[j]
            /\ ret.best_pos = swarm.pbest_pos[j]

\* the minimum is attained twice, at rows that differ, after a worse row
C2_Witness ==
    /\ Returned("update_gbest")
    /\ \E h, i, j \in DOMAIN swarm.pbest_cost :
          /\ h < i /\ i < j
          /\ swarm.pbest_cost[h] > swarm.pbest_cost[i]
          /\ swarm.pbest_cost[i] = swarm.pbest_cost[j]
          /\ swarm.pbest_cost[i] = ret.best_cost
          /\ swarm.pbest_pos[i] # swarm.pbest_pos[j]

\* twice the real-valued temp_velocity of cell (i, j), the random factors
\* being r1 / 2 and r2 / 2
TwiceTemp(i, j) ==
    (2 * swarm.behavior["w"] * swarm.velocity[i][j])
    + (swarm.behavior["c1"] * call.r1[i][j]
          * (swarm.pbest_pos[i][j] - swarm.position[i][j]))
    + (swarm.behavior["c2"] * call.r2[i][j]
          * (swarm.best_pos[j] - swarm.position[i][j]))

\* C3: with clamp = (lo, hi), every cell of update_velocity's result is
\* temp_velocity when lo <= temp_velocity <= hi and the old velocity cell
\* otherwise, so a result cell outside [lo, hi] is the old velocity cell.
C3_ClampRejects ==
    (Returned("update_velocity") /\ call.clamp # NoneVal) =>
        \A i \in 1..N : \A j \in 1..D :
            LET lo == call.clamp[1]
                hi == call.clamp[2]
                out == ret.velocity[i][j]
            IN  /\ IF 2 * lo <= TwiceTemp(i, j) /\ TwiceTemp(i, j) <= 2 * hi
                   THEN 2 * out = TwiceTemp(i, j)
                   ELSE out = swarm.velocity[i][j]
                /\ (out < lo \/ out > hi) => out = swarm.velocity[i][j]

\* a rejected cell whose old velocity is itself outside the clamp, and a
\* cell accepted on the boundary
C3_Witness ==
    /\ Returned("update_velocity") /\ call.clamp # NoneVal
    /\ \E i \in 1..N : \E j \in 1..D :
          /\ TwiceTemp(i, j) > 2 * call.clamp[2]
          /\ ret.velocity[i][j] < call.clamp[1]
    /\ \E i \in 1..N : \E j \in 1..D :
          /\ TwiceTemp(i, j) = 2 * call.clamp[2]
          /\ ret.velocity[i][j] # swarm.velocity[i][j]

InBounds(row, lb, ub) == \A j \in DOMAIN row : lb[j] <= row[j] /\ row[j] <= ub[j]

Moved(i) == [j \in 1..D |-> swarm.position[i][j] + swarm.velocity[i][j]]

\* C4: with bounds = (lb, ub), row i of update_position's result is
\* position[i] + velocity[i] when that lies in [lb, ub] in every dimension,
\* and the whole old row position[i] when one dimension violates its
\* bound; with no bounds the result is position + velocity.
C4_WholeRowRejected ==
    Returned("update_position") =>
        \A i \in 1..N :
            ret.position[i] =
                IF call.bounds = NoneVal
                THEN Moved(i)
                ELSE IF InBounds(Moved(i), call.bounds[1], call.bounds[2])
                THEN Moved(i) ELSE swarm.position[i]

\* a row reverted although one of its dimensions moved and stayed in bounds
C4_Witness ==
    /\ Returned("update_position") /\ call.bounds # NoneVal
    /\ \E i \in 1..N : \E j, h \in 1..D :
          /\ Moved(i)[j] > call.bounds[2][j]
          /\ swarm.velocity[i][h] # 0
          /\ call.bounds[1][h] <= Moved(i)[h]
          /\ Moved(i)[h] <= call.bounds[2][h]
          /\ ret.position[i] = swarm.position[i]

PairwiseDistinct(x) == \A i, j \in DOMAIN x : i # j => x[i] # x[j]

FirstMin(cost, j) ==
    /\ \A i \in DOMAIN cost : cost[j] <= cost[i]
    /\ \A i \in DOMAIN cost : i < j => cost[i] > cost[j]

\* C5: with k = 1 every particle is its own best neighbor, so
\* update_gbest_neighborhood returns the minimum of pbest_cost and the
\* pbest_pos row of the first particle attaining it (stated here for
\* pairwise distinct positions, where a particle's nearest point is itself).
C5_KOneIsPersonalBest ==
    (Returned("update_gbest_neighborhood") /\ call.k = 1
        /\ PairwiseDistinct(swarm.position)) =>
        \E j \in 1..N :
            /\ FirstMin(swarm.pbest_cost, j)
            /\ ret.best_cost = swarm.pbest_cost[j]
            /\ ret.best_pos = swarm.pbest_pos[j]

\* C7: update_gbest_neighborhood fails, returning no result, when k is
\* outside [1, n_particles) or p is neither 1 nor 2.
C7_RejectsBadConfiguration ==
    (pc = "returned" /\ call.op = "update_gbest_neighborhood"
        /\ DOMAIN swarm = DOMAIN BaseSwarm(1, 1)
        /\ (call.k < 1 \/ call.k >= Len(swarm.position) \/ call.p \notin {1, 2}))
    => ret.tag # "ok"

C9_NeighborhoodCostIsGlobalCost ==
    (pc = "returned" /\ call.op = "update_gbest_neighborhood"
        /\ HasAttrs(swarm, {"position", "pbest_cost", "pbest_pos"})
        /\ PairwiseDistinct(swarm.position)
        /\ call.p \in {1, 2} /\ 2 <= call.k /\ call.k < N)
    => /\ ret.tag = "ok"
       /\ ret.best_cost = update_gbest(swarm).best_cost

\* such a call whose best_pos is neither update_gbest's nor the position of
\* a particle whose pbest_cost is the returned best_cost
C9_Witness ==
    /\ Returned("update_gbest_neighborhood")
    /\ PairwiseDistinct(swarm.position)
    /\ call.p \in {1, 2} /\ 2 <= call.k /\ call.k < N
    /\ ret.best_pos # update_gbest(swarm).best_pos
    /\ \A j \in 1..N : swarm.pbest_pos[j] = ret.best_pos =>
                            swarm.pbest_cost[j] # ret.best_cost

----------------------------------------------------------------------------
(* Properties of the loop *)

MinSeen(i) == CHOOSE c \in {o[2] : o \in seen[i]} : \A o \in seen[i] : c <= o[2]

PbestIsBestSeen ==
    \A i \in DOMAIN seen :
        /\ swarm.pbest_cost[i] = MinSeen(i)
        /\ <<swarm.pbest_pos[i], swarm.pbest_cost[i]>> \in seen[i]

PbestStep ==
    /\ \A i \in DOMAIN seen : swarm'.pbest_cost[i] <= swarm.pbest_cost[i]
    /\ pc # "pbest" => /\ swarm'.pbest_cost = swarm.pbest_cost
                       /\ swarm'.pbest_pos = swarm.pbest_pos

\* C6: throughout the loop pbest_cost[i] is the minimum of the costs
\* update_pbest was given for particle i (the seed included), pbest_pos[i]
\* is a position at which that minimum was observed, pbest_cost[i] never
\* increases, and only the update_pbest step changes pbest_pos, pbest_cost.
C6_PbestIsMinimumObserved == []PbestIsBestSeen /\ [][PbestStep]_vars

\* after a whole iteration a particle has improved on its seed and has
\* then moved away from its personal best position
C6_Witness ==
    /\ pc = "evaluate" /\ iter >= 1
    /\ \E i \in DOMAIN seen :
          /\ swarm.pbest_pos[i] # swarm.position[i]
          /\ \E o \in seen[i] : o[2] > swarm.pbest_cost[i]
                                 /\ o[1] # swarm.pbest_pos[i]

AllInBounds ==
    \A i \in 1..N : InBounds(swarm.position[i], LoopBounds(D)[1], LoopBounds(D)[2])

InfeasibleStays ==
    pc = "position" =>
        \A i \in 1..N :
            ~InBounds(Moved(i), LoopBounds(D)[1], LoopBounds(D)[2]) =>
                swarm'.position[i] = swarm.position[i]

====
